---- MODULE Spec2Model ----
(***************************************************************************)
(* SmartGlassesPi: OCR (OCR/piOCR.py), Piper TTS (TTS/piper_tts.py) and    *)
(* the image_to_speech pipeline (smartglasses_app.py) as a state machine.  *)
(*                                                                         *)
(* Strings are sequences of one-character strings; " " is the whitespace   *)
(* character.  Audio is a sequence of bytes (0..255) or of int16 samples.  *)
(* Execution times are integers (milliseconds).                            *)
(***************************************************************************)
EXTENDS Integers, Sequences, FiniteSets, TLC

\* ------------------------------------------------------------------ bounds
MaxCalls  == 2  \* top-level calls started in one process
MaxFrags  == 2  \* text fragments the engine finds in one image
MaxDim    == 5  \* width and height of a benchmark input image, in pixels
MaxChunks == 2  \* chunks one synthesis stream yields
NThreads  == 2  \* threads using detect_text concurrently (SpecConc)
MaxBytes  == 5  \* bytes the control listener receives on the serial channel

\* ------------------------------------------------------------- vocabulary
None == "None"
Unseen == "unseen"
MainThread == 1

Fragments == { <<>>, <<" ">>, <<"a">>, <<" ", "b">> }
Fallbacks == { <<>>, <<" ">>, <<"n", "o">> }

RECURSIVE SeqsUpTo(_, _)
SeqsUpTo(S, n) ==
    IF n = 0 THEN { <<>> }
    ELSE LET shorter == SeqsUpTo(S, n - 1)
         IN  shorter \cup { Append(s, x) : s \in { q \in shorter : Len(q) = n - 1 }, x \in S }

TextSeqs == SeqsUpTo(Fragments, MaxFrags)

\* ----------------------------------------------------------- str helpers
IsSpace(c) == c = " "

RECURSIVE LStrip(_)
LStrip(s) == IF s # <<>> /\ IsSpace(Head(s)) THEN LStrip(Tail(s)) ELSE s

RECURSIVE RStrip(_)
RStrip(s) ==
    IF s # <<>> /\ IsSpace(s[Len(s)]) THEN RStrip(SubSeq(s, 1, Len(s) - 1)) ELSE s

Strip_LeftOnly(s) == LStrip(s)

\* str.strip()
Strip(s) == RStrip(LStrip(s))

\* sep.join(parts)
RECURSIVE Join(_, _)
Join(sep, parts) ==
    IF parts = <<>> THEN <<>>
    ELSE IF Len(parts) = 1 THEN parts[1]
    ELSE parts[1] \o sep \o Join(sep, Tail(parts))

\* Python truthiness of a str
Truthy(s) == s # <<>>

\* ------------------------------------------------------------------ files
\* What a path given to cv2.imread holds.
AbsentImage  == [kind |-> "absent",  w |-> 0, h |-> 0, frags |-> <<>>]
GarbageImage == [kind |-> "garbage", w |-> 0, h |-> 0, frags |-> <<>>]
Image(w, h, frags) == [kind |-> "image", w |-> w, h |-> h, frags |-> frags]

\* cv2.imread(path) is None
ImreadIsNone(img) == img.kind # "image"

\* reader.readtext(image): (bbox, text, confidence) per detection, in the
\* engine's detection order.
Readtext(img) == [i \in 1..Len(img.frags) |-> <<i, img.frags[i], 1>>]

\* [text for _, text, _ in results]
TextsOf(results) == [i \in 1..Len(results) |-> results[i][2]]

VARIABLES
    ncalls,     \* top-level calls started so far
    cache,      \* lru_cache(maxsize=1) slot of _get_easyocr_reader: 0 = empty, else instance id
    built,      \* easyocr.Reader instances constructed so far (ids 1..built)
    served,     \* <<instance id, gpu argument of the caller>> for every return of _get_easyocr_reader so far
    dpc,        \* detect_text: position of each thread
    dimg,       \* detect_text: what image_path holds
    dgpu,       \* detect_text: gpu argument
    dcaller,    \* detect_text: who called ("main", "bench", "app")
    dnew,       \* _get_easyocr_reader: instance built by this call, 0 = none
    dreader,    \* detect_text: reader local, 0 = unset
    dret,       \* detect_text: value returned, or the exception raised
    bpc,        \* benchmark_ocr_quality: position
    bimg,       \* benchmark: what image_path holds
    bgpu,       \* benchmark: gpu argument
    bi,         \* benchmark: loop index i + 1 into scale_factors
    bnew,       \* benchmark: <<new_width, new_height>>
    bresults,   \* benchmark: results list
    berr,       \* benchmark: exception in flight or raised, None = none
    tempDir,    \* whether temp_benchmark_images exists
    temps,      \* what each scaled temp image path holds
    report,     \* what this call wrote to output_file: <<>> or <<the report>>
    apc,        \* image_to_speech / piper_tts.main: position
    aop,        \* which of the two is running: "app", "tts" or None
    aimg,       \* image_to_speech: what image_path holds
    aocrgpu,    \* image_to_speech: ocr_gpu argument
    afallback,  \* image_to_speech: fallback_text argument
    atextarg,   \* piper_tts.main: --text, <<>> = not given, else <<text>>
    afilearg,   \* piper_tts.main: --text-file, <<>> = not given, else <<what the path holds>>
    amodel,     \* what the model path holds, once looked at: "missing" or "present"
    aconfig,    \* None when no config path is given, else what the path holds, once
                \* looked at: "missing" or "present"
    agpu,       \* use_gpu / tts_gpu argument
    avoice,     \* the loaded voice: <<>> = none yet, else <<voice>>
    atext,      \* the text handed to synthesise_to_memory
    achunks,    \* synthesise_to_memory: chunks the stream has yielded so far
    asamples,   \* the int16 samples synthesise_to_memory returned
    arate,      \* sample_rate handed to save_wav, 0 = not yet known
    aerr,       \* exception in flight or raised, None = none
    stages,     \* stages this call has run, in order
    fsBefore,   \* <<outDir, outFile>> when this call started
    outDir,     \* whether the parent directory of the output path exists
    outFile,    \* what the output path holds: <<>> = no file, else <<contents>>
    handle,     \* whether save_wav holds an open file handle
    cpc,        \* main_controller: position
    crx,        \* main_controller: the bytes ser.read has returned so far, in order
    cdata,      \* main_controller: data, <<>> = nothing read yet, else <<the byte>>
    suspends,   \* main_controller: times "sudo systemctl suspend" was run
    serOpen     \* main_controller: whether the serial port is open

dvars == <<dpc, dimg, dgpu, dcaller, dnew, dreader, dret>>
gvars == <<ncalls, cache, built, served>>
bvars == <<bpc, bimg, bgpu, bi, bnew, bresults, berr, tempDir, temps, report>>
avars == <<apc, aop, aimg, aocrgpu, afallback, atextarg, afilearg, amodel, aconfig, agpu,
           avoice, atext, achunks, asamples, arate, aerr, stages, fsBefore>>
fvars == <<outDir, outFile, handle>>
cvars == <<cpc, crx, cdata, suspends, serOpen>>
ovars == <<gvars, dvars, bvars>>
vars == <<gvars, dvars, bvars, avars, fvars, cvars>>

Threads == DOMAIN dpc

\* ------------------------------------------ _get_easyocr_reader (lru_cache)
\* The cache lookup of the lru_cache wrapper: the key is the empty argument
\* tuple, so any stored entry is a hit.
CacheHit(c) == c # 0

CacheAfterCall_NoStore(c, new) == c

\* After the wrapped function returned: the result is stored unless the key
\* was added during the call.
CacheAfterCall(c, new) == IF c # 0 THEN c ELSE new

\* ------------------------------------------------------------ detect_text
\* A call of detect_text(image_path, gpu) enters on thread t.
EnterDetect(t, img, gpu, caller) ==
    /\ dpc' = [dpc EXCEPT ![t] = "imread"]
    /\ dimg' = [dimg EXCEPT ![t] = img]
    /\ dgpu' = [dgpu EXCEPT ![t] = gpu]
    /\ dcaller' = [dcaller EXCEPT ![t] = caller]
    /\ dnew' = [dnew EXCEPT ![t] = 0]
    /\ dreader' = [dreader EXCEPT ![t] = 0]
    /\ dret' = [dret EXCEPT ![t] = None]

\* The locals of detect_text on thread t before a call and after its frame is
\* dropped.
DetectFrameGone(t) ==
    /\ dpc' = [dpc EXCEPT ![t] = "idle"]
    /\ dimg' = [dimg EXCEPT ![t] = AbsentImage]
    /\ dgpu' = [dgpu EXCEPT ![t] = FALSE]
    /\ dcaller' = [dcaller EXCEPT ![t] = None]
    /\ dnew' = [dnew EXCEPT ![t] = 0]
    /\ dreader' = [dreader EXCEPT ![t] = 0]
    /\ dret' = [dret EXCEPT ![t] = None]

DetectRaise(t, err) ==
    /\ dpc' = [dpc EXCEPT ![t] = "raised"]
    /\ dret' = [dret EXCEPT ![t] = err]

DT_Imread_NoCheck(t) ==
    /\ dpc[t] = "imread"
    /\ dpc' = [dpc EXCEPT ![t] = "lookup"]
    /\ UNCHANGED dret
    /\ UNCHANGED <<avars, fvars>>
    /\ UNCHANGED <<gvars, bvars, dimg, dgpu, dcaller, dnew, dreader>>
    /\ UNCHANGED cvars

\* image = cv2.imread(image_path); if image is None: raise FileNotFoundError
DT_Imread(t) ==
    /\ dpc[t] = "imread"
    /\ IF ImreadIsNone(dimg[t])
       THEN DetectRaise(t, "FileNotFoundError")
       ELSE dpc' = [dpc EXCEPT ![t] = "lookup"] /\ UNCHANGED dret
    /\ UNCHANGED <<avars, fvars>>
    /\ UNCHANGED <<gvars, bvars, dimg, dgpu, dcaller, dnew, dreader>>
    /\ UNCHANGED cvars

\* reader = _get_easyocr_reader(): the wrapper looks the key up
DT_Lookup(t) ==
    /\ dpc[t] = "lookup"
    /\ IF CacheHit(cache)
       THEN /\ dreader' = [dreader EXCEPT ![t] = cache]
            /\ served' = served \cup {<<cache, dgpu[t]>>}
            /\ dpc' = [dpc EXCEPT ![t] = "readtext"]
       ELSE /\ dpc' = [dpc EXCEPT ![t] = "construct"]
            /\ UNCHANGED <<dreader, served>>
    /\ UNCHANGED <<avars, fvars>>
    /\ UNCHANGED <<bvars, ncalls, cache, built, dimg, dgpu, dcaller, dnew, dret>>
    /\ UNCHANGED cvars

DT_Construct_Retry(t) ==
    /\ dpc[t] = "construct"
    /\ \/ /\ built' = built + 1
          /\ dnew' = [dnew EXCEPT ![t] = built + 1]
          /\ dpc' = [dpc EXCEPT ![t] = "store"]
          /\ UNCHANGED dret
       \/ /\ dpc' = [dpc EXCEPT ![t] = "lookup"]
          /\ dret' = [dret EXCEPT ![t] = "EngineConstructionError"]
          /\ UNCHANGED <<built, dnew>>
    /\ UNCHANGED <<avars, fvars>>
    /\ UNCHANGED <<bvars, ncalls, cache, served, dimg, dgpu, dcaller, dreader>>
    /\ UNCHANGED cvars

\* the miss path calls easyocr.Reader(LANGUAGES, gpu=False), which loads the
\* model and may raise
DT_Construct(t) ==
    /\ dpc[t] = "construct"
    /\ \/ /\ built' = built + 1
          /\ dnew' = [dnew EXCEPT ![t] = built + 1]
          /\ dpc' = [dpc EXCEPT ![t] = "store"]
          /\ UNCHANGED dret
       \/ /\ DetectRaise(t, "EngineConstructionError")
          /\ UNCHANGED <<built, dnew>>
    /\ UNCHANGED <<avars, fvars>>
    /\ UNCHANGED <<bvars, ncalls, cache, served, dimg, dgpu, dcaller, dreader>>
    /\ UNCHANGED cvars

\* the wrapper stores the result and returns it
DT_Store(t) ==
    /\ dpc[t] = "store"
    /\ cache' = CacheAfterCall(cache, dnew[t])
    /\ dreader' = [dreader EXCEPT ![t] = dnew[t]]
    /\ served' = served \cup {<<dnew[t], dgpu[t]>>}
    /\ dpc' = [dpc EXCEPT ![t] = "readtext"]
    /\ UNCHANGED <<avars, fvars>>
    /\ UNCHANGED <<bvars, ncalls, built, dimg, dgpu, dcaller, dnew, dret>>
    /\ UNCHANGED cvars

\* results = reader.readtext(image); return [text for _, text, _ in results]
DT_Readtext(t) ==
    /\ dpc[t] = "readtext"
    /\ \/ /\ dret' = [dret EXCEPT ![t] = TextsOf(Readtext(dimg[t]))]
          /\ dpc' = [dpc EXCEPT ![t] = "ret"]
       \/ DetectRaise(t, "RuntimeError")
    /\ UNCHANGED <<avars, fvars>>
    /\ UNCHANGED <<gvars, bvars, dimg, dgpu, dcaller, dnew, dreader>>
    /\ UNCHANGED cvars

DetectStep(t) ==
    \/ DT_Imread(t)
    \/ DT_Lookup(t)
    \/ DT_Construct(t)
    \/ DT_Store(t)
    \/ DT_Readtext(t)

DetectDone(t) == dpc[t] \in {"ret", "raised"}

\* The locals of benchmark_ocr_quality before a call and after its frame is
\* dropped.
BenchFrameGone ==
    /\ bpc' = "idle"
    /\ bimg' = AbsentImage
    /\ bgpu' = FALSE
    /\ bi' = 1
    /\ bnew' = <<0, 0>>
    /\ bresults' = <<>>
    /\ berr' = None
    /\ report' = <<>>

\* No top-level call is running on the main thread.
MainIdle ==
    /\ dpc[MainThread] = "idle"
    /\ bpc = "idle"
    /\ apc = "idle"

\* ------------------------------------------------- piOCR.py __main__ (OCR)
OcrImages ==
    {AbsentImage, GarbageImage} \cup { Image(4, 4, f) : f \in {<<>>, << <<"a">> >>} }

\* detect_text(image_path, gpu=gpu_requested) is called on an idle thread
OcrMain(t) ==
    /\ dpc[t] = "idle"
    /\ t = MainThread => MainIdle
    /\ ncalls < MaxCalls
    /\ ncalls' = ncalls + 1
    /\ \E img \in OcrImages, gpu \in BOOLEAN : EnterDetect(t, img, gpu, "main")
    /\ UNCHANGED <<cache, built, served, bvars, avars, fvars>>
    /\ UNCHANGED cvars

\* the caller is done with the value or the exception of detect_text
OcrReturn(t) ==
    /\ DetectDone(t)
    /\ dcaller[t] = "main"
    /\ DetectFrameGone(t)
    /\ UNCHANGED <<gvars, bvars, avars, fvars>>
    /\ UNCHANGED cvars

\* -------------------------------------------------- benchmark_ocr_quality
\* scale_factors = [1.0, 0.5, 0.25], in hundredths
ScaleFactors == <<100, 50, 25>>

\* int(original * scale): the product is exact for these factors and int()
\* truncates
ScaledDim(orig, scale) == (orig * scale) \div 100

\* str(n) for n >= 0
Digit(d) == <<"0", "1", "2", "3", "4", "5", "6", "7", "8", "9">>[d + 1]
RECURSIVE Str(_)
Str(n) == IF n < 10 THEN <<Digit(n)>> ELSE Str(n \div 10) \o <<Digit(n % 10)>>

\* f"{new_width}x{new_height}"
ResolutionStr(w, h) == Str(w) \o <<"x">> \o Str(h)

\* cv2.resize raises cv2.error when the requested size has a zero dimension
ResizeRaises(w, h) == w <= 0 \/ h <= 0

\* time.time() differences, on a successful detect_text call
Times == {1, 2}

BenchTexts == { <<>>, << <<"a">> >> }
BenchImages ==
    {AbsentImage, GarbageImage}
    \cup { Image(w, h, f) : w \in 1..MaxDim, h \in 1..MaxDim, f \in BenchTexts }

SuccessResult(scale, w, h, time, text) ==
    [scale_factor |-> scale, resolution |-> ResolutionStr(w, h),
     execution_time |-> time, detected_text |-> text, text_count |-> Len(text),
     success |-> TRUE, error |-> None]

FailureResult(scale, w, h, err) ==
    [scale_factor |-> scale, resolution |-> ResolutionStr(w, h),
     execution_time |-> 0, detected_text |-> <<>>, text_count |-> 0,
     success |-> FALSE, error |-> err]

SuccessfulTests_All(results) == results

\* [r for r in results if r['success']]
RECURSIVE SuccessfulTests(_)
SuccessfulTests(results) ==
    IF results = <<>> THEN <<>>
    ELSE IF Head(results).success
         THEN <<Head(results)>> \o SuccessfulTests(Tail(results))
         ELSE SuccessfulTests(Tail(results))

\* sum(r['execution_time'] for r in tests)
RECURSIVE SumTimes(_)
SumTimes(tests) ==
    IF tests = <<>> THEN 0 ELSE Head(tests).execution_time + SumTimes(Tail(tests))

\* a / b, kept as the fraction <<a, b>>
Divide(a, b) == IF b = 0 THEN "ZeroDivisionError" ELSE <<a, b>>

\* min(tests, key=execution_time): the first element with the least time
RECURSIVE MinByTime(_)
MinByTime(tests) ==
    IF Len(tests) = 1 THEN tests[1]
    ELSE LET rest == MinByTime(Tail(tests))
         IN  IF rest.execution_time < tests[1].execution_time THEN rest ELSE tests[1]

\* max(tests, key=execution_time): the first element with the greatest time
RECURSIVE MaxByTime(_)
MaxByTime(tests) ==
    IF Len(tests) = 1 THEN tests[1]
    ELSE LET rest == MaxByTime(Tail(tests))
         IN  IF rest.execution_time > tests[1].execution_time THEN rest ELSE tests[1]

\* `if successful_tests:`
ListTruthy(l) == l # <<>>

\* The "Summary" section of the report.
Summary(results) ==
    LET successful_tests == SuccessfulTests(results)
    IN  IF ListTruthy(successful_tests)
        THEN [kind |-> "stats",
              avg_time |-> Divide(SumTimes(successful_tests), Len(successful_tests)),
              fastest |-> <<MinByTime(successful_tests).resolution,
                            MinByTime(successful_tests).execution_time>>,
              slowest |-> <<MaxByTime(successful_tests).resolution,
                            MaxByTime(successful_tests).execution_time>>]
        ELSE [kind |-> "No successful tests completed."]

\* One "Test i" block of the report.
TestBlock(r) ==
    IF r.success
    THEN [resolution |-> r.resolution, scale_factor |-> r.scale_factor,
          status |-> "ok", time |-> r.execution_time, count |-> r.text_count,
          lines |-> IF ListTruthy(r.detected_text) THEN r.detected_text
                    ELSE <<"No text detected">>]
    ELSE [resolution |-> r.resolution, scale_factor |-> r.scale_factor,
          status |-> "FAILED", error |-> r.error]

ReportText(img, results) ==
    [original |-> ResolutionStr(img.w, img.h),
     tests |-> [i \in 1..Len(results) |-> TestBlock(results[i])],
     summary |-> Summary(results)]

\* python OCR/piOCR.py <image_path> --benchmark [--gpu]
BenchStart ==
    /\ MainIdle
    /\ ncalls < MaxCalls
    /\ ncalls' = ncalls + 1
    /\ \E img \in BenchImages, gpu \in BOOLEAN : bimg' = img /\ bgpu' = gpu
    /\ bpc' = "imread"
    /\ bi' = 1
    /\ bnew' = <<0, 0>>
    /\ bresults' = <<>>
    /\ berr' = None
    /\ report' = <<>>
    /\ UNCHANGED <<avars, fvars>>
    /\ UNCHANGED <<cache, built, served, dvars, tempDir, temps>>
    /\ UNCHANGED cvars

\* original_image = cv2.imread(image_path); raise FileNotFoundError if None;
\* os.makedirs(temp_dir, exist_ok=True); results = []
B_Imread ==
    /\ bpc = "imread"
    /\ IF ImreadIsNone(bimg)
       THEN bpc' = "raised" /\ berr' = "FileNotFoundError:imread" /\ UNCHANGED tempDir
       ELSE bpc' = "resize" /\ tempDir' = TRUE /\ UNCHANGED berr
    /\ UNCHANGED <<avars, fvars>>
    /\ UNCHANGED <<gvars, dvars, bimg, bgpu, bi, bnew, bresults, temps, report>>
    /\ UNCHANGED cvars

\* new_width, new_height = int(...), int(...); scaled_image = cv2.resize(...)
B_Resize ==
    /\ bpc = "resize"
    /\ LET w == ScaledDim(bimg.w, ScaleFactors[bi])
           h == ScaledDim(bimg.h, ScaleFactors[bi])
       IN  /\ bnew' = <<w, h>>
           /\ IF ResizeRaises(w, h)
              THEN bpc' = "finally" /\ berr' = "cv2.error:resize"
              ELSE bpc' = "imwrite" /\ UNCHANGED berr
    /\ UNCHANGED <<avars, fvars>>
    /\ UNCHANGED <<gvars, dvars, bimg, bgpu, bi, bresults, tempDir, temps, report>>
    /\ UNCHANGED cvars

\* cv2.imwrite(temp_image_path, scaled_image): writes the file, or returns
\* False without writing it (the return value is not looked at), or leaves an
\* undecodable file, or raises
B_Imwrite ==
    /\ bpc = "imwrite"
    /\ \/ /\ temps' = [temps EXCEPT ![bi] = Image(bnew[1], bnew[2], bimg.frags)]
          /\ bpc' = "detect"
          /\ UNCHANGED berr
       \/ /\ temps' = [temps EXCEPT ![bi] = GarbageImage]
          /\ bpc' = "detect"
          /\ UNCHANGED berr
       \/ /\ bpc' = "detect"
          /\ UNCHANGED <<temps, berr>>
       \/ /\ bpc' = "finally"
          /\ berr' = "cv2.error:imwrite"
          /\ UNCHANGED temps
    /\ UNCHANGED <<avars, fvars>>
    /\ UNCHANGED <<gvars, dvars, bimg, bgpu, bi, bnew, bresults, tempDir, report>>
    /\ UNCHANGED cvars

\* start_time = time.time(); detected_text = detect_text(temp_image_path, gpu)
B_Detect ==
    /\ bpc = "detect"
    /\ EnterDetect(MainThread, temps[bi], bgpu, "bench")
    /\ bpc' = "record"
    /\ UNCHANGED <<avars, fvars>>
    /\ UNCHANGED <<gvars, bimg, bgpu, bi, bnew, bresults, berr, tempDir, temps, report>>
    /\ UNCHANGED cvars

\* the try/except around detect_text builds result; results.append(result)
B_Record ==
    /\ bpc = "record"
    /\ DetectDone(MainThread)
    /\ IF dpc[MainThread] = "ret"
       THEN \E time \in Times :
              bresults' = Append(bresults,
                  SuccessResult(ScaleFactors[bi], bnew[1], bnew[2], time, dret[MainThread]))
       ELSE bresults' = Append(bresults,
                  FailureResult(ScaleFactors[bi], bnew[1], bnew[2], dret[MainThread]))
    /\ bpc' = "remove"
    /\ UNCHANGED <<avars, fvars>>
    /\ UNCHANGED <<gvars, dvars, bimg, bgpu, bi, bnew, berr, tempDir, temps, report>>
    /\ UNCHANGED cvars

B_Remove_Keep ==
    /\ bpc = "remove"
    /\ UNCHANGED <<temps, berr>>
    /\ IF bi < Len(ScaleFactors)
       THEN bi' = bi + 1 /\ bpc' = "resize"
       ELSE bpc' = "finally" /\ UNCHANGED bi
    /\ UNCHANGED <<avars, fvars>>
    /\ UNCHANGED <<gvars, dvars, bimg, bgpu, bnew, bresults, tempDir, report>>
    /\ UNCHANGED cvars

\* os.remove(temp_image_path), then the next iteration or the end of the loop
B_Remove ==
    /\ bpc = "remove"
    /\ IF temps[bi].kind = "absent"
       THEN /\ bpc' = "finally"
            /\ berr' = "FileNotFoundError:remove"
            /\ UNCHANGED <<temps, bi>>
       ELSE /\ temps' = [temps EXCEPT ![bi] = AbsentImage]
            /\ UNCHANGED berr
            /\ IF bi < Len(ScaleFactors)
               THEN bi' = bi + 1 /\ bpc' = "resize"
               ELSE bpc' = "finally" /\ UNCHANGED bi
    /\ UNCHANGED <<avars, fvars>>
    /\ UNCHANGED <<gvars, dvars, bimg, bgpu, bnew, bresults, tempDir, report>>
    /\ UNCHANGED cvars

\* finally: try: os.rmdir(temp_dir) except: pass -- rmdir removes an empty
\* directory and may fail for any other reason; an exception in flight is
\* re-raised afterwards
B_Finally ==
    /\ bpc = "finally"
    /\ \/ /\ \A i \in DOMAIN temps : temps[i].kind = "absent"
          /\ tempDir' = FALSE
       \/ UNCHANGED tempDir
    /\ bpc' = IF berr # None THEN "raised" ELSE "report"
    /\ UNCHANGED <<avars, fvars>>
    /\ UNCHANGED <<gvars, dvars, bimg, bgpu, bi, bnew, bresults, berr, temps, report>>
    /\ UNCHANGED cvars

\* with open(output_file, 'w') as f: ...; return results
B_Report ==
    /\ bpc = "report"
    /\ LET text == ReportText(bimg, bresults)
       IN  IF text.summary.kind = "stats" /\ text.summary.avg_time = "ZeroDivisionError"
           THEN bpc' = "raised" /\ berr' = "ZeroDivisionError" /\ UNCHANGED report
           ELSE bpc' = "returned" /\ report' = <<text>> /\ UNCHANGED berr
    /\ UNCHANGED <<avars, fvars>>
    /\ UNCHANGED <<gvars, dvars, bimg, bgpu, bi, bnew, bresults, tempDir, temps>>
    /\ UNCHANGED cvars

\* the caller is done with the results or the exception of the benchmark
BenchReturn ==
    /\ bpc \in {"returned", "raised"}
    /\ BenchFrameGone
    /\ DetectFrameGone(MainThread)
    /\ UNCHANGED <<gvars, tempDir, temps, avars, fvars>>
    /\ UNCHANGED cvars

\* ------------------------------------------------------ TTS/piper_tts.py
\* What PiperVoice.load can return: a voice whose config carries a sample
\* rate, or an object without one.
NoRate == 0
Voices == { [sample_rate |-> 16000], [sample_rate |-> NoRate] }

\* Chunks synthesize_stream_raw can yield: raw bytes.
Chunks == { <<1>>, <<255, 255>> }

TtsTexts == { <<>>, <<" ">>, <<"h">> }

\* b"".join(chunks)
RECURSIVE JoinBytes(_)
JoinBytes(chunks) == IF chunks = <<>> THEN <<>> ELSE Head(chunks) \o JoinBytes(Tail(chunks))

\* np.frombuffer(audio_bytes, dtype=np.int16) raises ValueError unless the
\* buffer size is a multiple of the element size
FromBufferRaises(bytes) == Len(bytes) % 2 # 0

\* one little-endian int16 from two bytes
Int16(lo, hi) ==
    LET u == lo + 256 * hi IN IF u >= 32768 THEN u - 65536 ELSE u

\* np.frombuffer(audio_bytes, dtype=np.int16)
FromBuffer(bytes) ==
    [i \in 1..(Len(bytes) \div 2) |-> Int16(bytes[2 * i - 1], bytes[2 * i])]

\* np.asarray(samples, dtype=np.int16).reshape(-1).tobytes()
RECURSIVE ToBytes(_)
ToBytes(samples) ==
    IF samples = <<>> THEN <<>>
    ELSE LET u == Head(samples) % 65536
         IN  <<u % 256, u \div 256>> \o ToBytes(Tail(samples))

\* `if not text or not text.strip()`
TextIsBlank_NoStrip(text) == ~ Truthy(text)

TextIsBlank(text) == ~ Truthy(text) \/ ~ Truthy(Strip(text))

\* The file wave.open(path, "wb") leaves right after opening: truncated.
EmptyFile == [nchannels |-> 0, sampwidth |-> 0, framerate |-> 0, frames |-> <<>>]

\* The file after setnchannels(1), setsampwidth(2), setframerate(rate),
\* writeframes(bytes) and close.
WavFile(rate, bytes) == [nchannels |-> 1, sampwidth |-> 2, framerate |-> rate, frames |-> bytes]

\* wave.Wave_write.setframerate raises wave.Error for a rate that is not positive
SetFramerateRaises(rate) == rate <= 0

MkdirRaises_NoExistOk(exists, exist_ok) == exists

\* Path.mkdir(parents=True, exist_ok=...) raises FileExistsError for an
\* existing directory unless exist_ok is set
MkdirRaises(exists, exist_ok) == exists /\ ~ exist_ok

\* _read_text_argument(text, text_file): <<"ok", result>> or <<"raise", error>>
ReadTextArgument(text, text_file) ==
    IF text # <<>> /\ Truthy(text[1]) /\ Truthy(Strip(text[1]))
    THEN <<"ok", text[1]>>
    ELSE IF text_file # <<>>
         THEN IF ~ text_file[1].exists
              THEN <<"raise", "FileNotFoundError">>
              ELSE <<"ok", Strip(text_file[1].content)>>
         ELSE <<"raise", "ValueError">>

TextFiles == { [exists |-> FALSE, content |-> <<>>] }
             \cup { [exists |-> TRUE, content |-> c] : c \in TtsTexts }

Raise(err) ==
    /\ apc' = "raised"
    /\ aerr' = err

\* The locals of a pipeline call before it starts.
PipelineFrame(op, img, ocrgpu, fallback, textarg, filearg, model, config, gpu) ==
    /\ aop' = op
    /\ aimg' = img
    /\ aocrgpu' = ocrgpu
    /\ afallback' = fallback
    /\ atextarg' = textarg
    /\ afilearg' = filearg
    /\ amodel' = model
    /\ aconfig' = config
    /\ agpu' = gpu
    /\ avoice' = <<>>
    /\ atext' = <<>>
    /\ achunks' = <<>>
    /\ asamples' = <<>>
    /\ arate' = 0
    /\ aerr' = None
    /\ stages' = <<>>
    /\ fsBefore' = <<outDir, outFile>>

\* python TTS/piper_tts.py --model M [--config C] (--text T | --text-file F)
\* [--use-gpu]: main(), run once, up to the call of initialize_piper_voice
TtsMain ==
    /\ MainIdle
    /\ ncalls = 0
    /\ ncalls' = ncalls + 1
    /\ \E config \in {None, Unseen}, gpu \in BOOLEAN,
          arg \in { <<<<t>>, <<>>>> : t \in TtsTexts } \cup { <<<<>>, <<f>>>> : f \in TextFiles } :
         PipelineFrame("tts", AbsentImage, FALSE, <<>>, arg[1], arg[2], Unseen, config, gpu)
    /\ apc' = "iv_check"
    /\ UNCHANGED <<cache, built, served, dvars, bvars, fvars>>
    /\ UNCHANGED cvars

VoiceFileError_NoModelCheck(model, config) ==
    IF config # None /\ config = "missing" THEN "FileNotFoundError:config" ELSE None

\* initialize_piper_voice: the existence checks of model_path and, when one
\* is given, of config_path; None = both pass
VoiceFileError(model, config) ==
    IF model = "missing" THEN "FileNotFoundError:model"
    ELSE IF config # None /\ config = "missing" THEN "FileNotFoundError:config"
    ELSE None

\* What a look at the file system shows for a path: a path looked at before
\* still holds what it held, a path not given stays not given.
Seen(path) == IF path = Unseen THEN {"missing", "present"} ELSE {path}

\* initialize_piper_voice up to the call of PiperVoice.load
IV_Check ==
    /\ apc = "iv_check"
    /\ stages' = Append(stages, "check_voice_files")
    /\ \E model \in Seen(amodel), config \in Seen(aconfig) :
          /\ amodel' = model
          /\ aconfig' = config
          /\ IF VoiceFileError(model, config) # None
             THEN Raise(VoiceFileError(model, config))
             ELSE apc' = "iv_load" /\ UNCHANGED aerr
    /\ UNCHANGED fsBefore
    /\ UNCHANGED <<ovars, fvars, aop, aimg, aocrgpu, afallback, atextarg, afilearg,
                   agpu, avoice, atext, achunks, asamples, arate>>
    /\ UNCHANGED cvars

\* The errors PiperVoice.load(model_path, config_path, use_cuda=use_cuda) can
\* raise: the model or its config is unusable, whatever the flag; and, the
\* flag being handed on to the loader, the loader not getting the CUDA
\* provider it was asked for.  initialize_piper_voice catches neither.
LoadErrors(use_cuda) ==
    {"PiperLoadError"} \cup (IF use_cuda THEN {"PiperLoadError:cuda"} ELSE {})

\* voice = PiperVoice.load(model_path, config_path, use_cuda=use_gpu); return
\* voice.  The caller goes on: main() reads its text argument, image_to_speech
\* calls synthesise_to_memory.
IV_Load ==
    /\ apc = "iv_load"
    /\ stages' = Append(stages, "load_voice")
    /\ \/ /\ \E v \in Voices : avoice' = <<v>>
          /\ apc' = IF aop = "tts" THEN "read_text" ELSE "syn_check"
          /\ UNCHANGED aerr
       \/ /\ \E err \in LoadErrors(agpu) : Raise(err)
          /\ UNCHANGED avoice
    /\ UNCHANGED fsBefore
    /\ UNCHANGED <<ovars, fvars, aop, aimg, aocrgpu, afallback, atextarg, afilearg, amodel,
                   aconfig, agpu, atext, achunks, asamples, arate>>
    /\ UNCHANGED cvars

\* main(): text_to_say = _read_text_argument(args.text, args.text_file)
T_ReadText ==
    /\ apc = "read_text"
    /\ stages' = Append(stages, "read_text")
    /\ LET r == ReadTextArgument(atextarg, afilearg)
       IN  IF r[1] = "ok"
           THEN atext' = r[2] /\ apc' = "syn_check" /\ UNCHANGED aerr
           ELSE Raise(r[2]) /\ UNCHANGED atext
    /\ UNCHANGED fsBefore
    /\ UNCHANGED <<ovars, fvars, aop, aimg, aocrgpu, afallback, atextarg, afilearg, amodel,
                   aconfig, agpu, avoice, achunks, asamples, arate>>
    /\ UNCHANGED cvars

\* synthesise_to_memory: the guard on text
SY_Check ==
    /\ apc = "syn_check"
    /\ stages' = Append(stages, "synthesize")
    /\ IF TextIsBlank(atext)
       THEN Raise("ValueError:empty text")
       ELSE apc' = "syn_stream" /\ UNCHANGED aerr
    /\ UNCHANGED fsBefore
    /\ UNCHANGED <<ovars, fvars, aop, aimg, aocrgpu, afallback, atextarg, afilearg, amodel,
                   aconfig, agpu, avoice, atext, achunks, asamples, arate>>
    /\ UNCHANGED cvars

\* chunks = list(voice.synthesize_stream_raw(text)): the stream yields one
\* more chunk
SY_Chunk ==
    /\ apc = "syn_stream"
    /\ Len(achunks) < MaxChunks
    /\ \E c \in Chunks : achunks' = Append(achunks, c)
    /\ UNCHANGED fsBefore
    /\ UNCHANGED <<ovars, fvars, apc, aop, aimg, aocrgpu, afallback, atextarg, afilearg, amodel,
                   aconfig, agpu, avoice, atext, asamples, arate, aerr, stages>>
    /\ UNCHANGED cvars

\* the stream raises: list() lets the exception through and the chunks it
\* had collected are dropped
SY_Fail ==
    /\ apc = "syn_stream"
    /\ Raise("SynthesisError")
    /\ UNCHANGED fsBefore
    /\ UNCHANGED <<ovars, fvars, aop, aimg, aocrgpu, afallback, atextarg, afilearg, amodel,
                   aconfig, agpu, avoice, atext, achunks, asamples, arate, stages>>
    /\ UNCHANGED cvars

\* the stream ends: audio_bytes = b"".join(chunks); audio = np.frombuffer(...);
\* return audio.  The caller picks the sample rate: getattr(..., 22050) in
\* image_to_speech, voice.config.sample_rate in main().
SY_End ==
    /\ apc = "syn_stream"
    /\ LET audio_bytes == JoinBytes(achunks)
       IN  IF FromBufferRaises(audio_bytes)
           THEN Raise("ValueError:buffer size") /\ UNCHANGED <<asamples, arate>>
           ELSE /\ asamples' = FromBuffer(audio_bytes)
                /\ IF avoice[1].sample_rate = NoRate
                   THEN IF aop = "app"
                        THEN arate' = 22050 /\ apc' = "a_mkdir" /\ UNCHANGED aerr
                        ELSE Raise("AttributeError") /\ UNCHANGED arate
                   ELSE /\ arate' = avoice[1].sample_rate
                        /\ apc' = IF aop = "app" THEN "a_mkdir" ELSE "w_mkdir"
                        /\ UNCHANGED aerr
    /\ UNCHANGED fsBefore
    /\ UNCHANGED <<ovars, fvars, aop, aimg, aocrgpu, afallback, atextarg, afilearg, amodel,
                   aconfig, agpu, avoice, atext, achunks, stages>>
    /\ UNCHANGED cvars

\* save_wav: output_file.parent.mkdir(parents=True, exist_ok=True), which the
\* file system may refuse; samples = np.asarray(...).reshape(-1)
W_Mkdir ==
    /\ apc = "w_mkdir"
    /\ stages' = IF aop = "app" THEN stages ELSE Append(stages, "write_wav")
    /\ IF MkdirRaises(outDir, TRUE)
       THEN Raise("FileExistsError") /\ UNCHANGED outDir
       ELSE \/ /\ outDir' = TRUE
               /\ apc' = "w_open"
               /\ UNCHANGED aerr
            \/ /\ ~ outDir
               /\ Raise("OSError:mkdir")
               /\ UNCHANGED outDir
    /\ UNCHANGED fsBefore
    /\ UNCHANGED <<ovars, outFile, handle, aop, aimg, aocrgpu, afallback, atextarg, afilearg,
                   amodel, aconfig, agpu, avoice, atext, achunks, asamples, arate>>
    /\ UNCHANGED cvars

\* with wave.open(str(output_file), "wb") as wav_file: opening truncates the
\* file, or fails without leaving a handle
W_Open ==
    /\ apc = "w_open"
    /\ \/ /\ outFile' = <<EmptyFile>>
          /\ handle' = TRUE
          /\ apc' = "w_write"
          /\ UNCHANGED aerr
       \/ /\ Raise("OSError:open")
          /\ UNCHANGED <<outFile, handle>>
    /\ UNCHANGED <<fsBefore, stages>>
    /\ UNCHANGED <<ovars, outDir, aop, aimg, aocrgpu, afallback, atextarg, afilearg,
                   amodel, aconfig, agpu, avoice, atext, achunks, asamples, arate>>
    /\ UNCHANGED cvars

\* setnchannels(1); setsampwidth(2); setframerate(sample_rate);
\* writeframes(samples.tobytes()): the header and the frames are written, or
\* the write fails before anything reached the file or part-way
W_Write ==
    /\ apc = "w_write"
    /\ LET bytes == ToBytes(asamples)
       IN  IF SetFramerateRaises(arate)
           THEN aerr' = "wave.Error" /\ UNCHANGED outFile
           ELSE \/ /\ outFile' = <<WavFile(arate, bytes)>>
                   /\ UNCHANGED aerr
                \/ /\ aerr' = "OSError:write"
                   /\ \/ UNCHANGED outFile
                      \/ \E k \in 0..(Len(bytes) - 1) :
                           outFile' = <<WavFile(arate, SubSeq(bytes, 1, k))>>
    /\ apc' = "w_exit"
    /\ UNCHANGED <<fsBefore, stages>>
    /\ UNCHANGED <<ovars, outDir, handle, aop, aimg, aocrgpu, afallback, atextarg, afilearg,
                   amodel, aconfig, agpu, avoice, atext, achunks, asamples, arate>>
    /\ UNCHANGED cvars

\* leaving the with block closes the file; an exception in flight goes on to
\* the caller, otherwise save_wav returns and so does its caller
W_Exit ==
    /\ apc = "w_exit"
    /\ handle' = FALSE
    /\ apc' = IF aerr # None THEN "raised" ELSE "returned"
    /\ UNCHANGED fsBefore
    /\ UNCHANGED <<ovars, outDir, outFile, aop, aimg, aocrgpu, afallback, atextarg, afilearg,
                   amodel, aconfig, agpu, avoice, atext, achunks, asamples, arate, aerr, stages>>
    /\ UNCHANGED cvars

\* save_wav used as a library function: the arrays and rates a caller passes
WavSamples == { <<>>, <<1>>, <<257, -1>> }

WavRates == {16000, 22050}

\* save_wav(samples, sample_rate, output_path) is called, the output path
\* being the same in every call
WavCall ==
    /\ MainIdle
    /\ ncalls < MaxCalls
    /\ ncalls' = ncalls + 1
    /\ aop' = "wav"
    /\ \E samples \in WavSamples, rate \in WavRates :
         /\ asamples' = samples
         /\ arate' = rate
    /\ aerr' = None
    /\ stages' = <<>>
    /\ fsBefore' = <<outDir, outFile>>
    /\ apc' = "w_mkdir"
    /\ UNCHANGED <<cache, built, served, dvars, bvars, fvars>>
    /\ UNCHANGED <<aimg, aocrgpu, afallback, atextarg, afilearg, amodel, aconfig, agpu,
                   avoice, atext, achunks>>
    /\ UNCHANGED cvars

\* the caller is done with what save_wav returned or raised
WavReturn ==
    /\ aop = "wav"
    /\ apc \in {"returned", "raised"}
    /\ apc' = "idle"
    /\ aop' = None
    /\ asamples' = <<>>
    /\ arate' = 0
    /\ aerr' = None
    /\ stages' = <<>>
    /\ fsBefore' = <<FALSE, <<>>>>
    /\ UNCHANGED <<ncalls, cache, built, served, dvars, bvars, fvars>>
    /\ UNCHANGED <<aimg, aocrgpu, afallback, atextarg, afilearg, amodel, aconfig, agpu,
                   avoice, atext, achunks>>
    /\ UNCHANGED cvars

\* ------------------------------------------------------ smartglasses_app.py
AppImages == {AbsentImage, GarbageImage} \cup { Image(4, 4, f) : f \in TextSeqs }

\* Path(image_path).exists()
PathExists(img) == img.kind # "absent"

Transcript_NoStrip(detected_text, fallback_text) ==
    LET joined == Join(<<" ">>, detected_text)
    IN  IF Truthy(joined) THEN joined ELSE fallback_text

\* " ".join(detected_text).strip() or fallback_text
Transcript(detected_text, fallback_text) ==
    LET joined == Strip(Join(<<" ">>, detected_text))
    IN  IF Truthy(joined) THEN joined ELSE fallback_text

\* python smartglasses_app.py <image> [--output ...] ...: main() calls
\* image_to_speech(image_path, output_wav_path, ocr_gpu=, tts_gpu=,
\* model_path=, config_path=, fallback_text=) once
AppStart ==
    /\ MainIdle
    /\ ncalls = 0
    /\ ncalls' = ncalls + 1
    /\ \E img \in AppImages, ocrgpu \in BOOLEAN, fallback \in Fallbacks, gpu \in BOOLEAN :
         PipelineFrame("app", img, ocrgpu, fallback, <<>>, <<>>, Unseen, Unseen, gpu)
    /\ apc' = "a_exists"
    /\ UNCHANGED <<cache, built, served, dvars, bvars, fvars>>
    /\ UNCHANGED cvars

\* if not image.exists(): raise FileNotFoundError; otherwise detect_text is
\* called
A_Exists ==
    /\ apc = "a_exists"
    /\ stages' = Append(stages, "image_exists")
    /\ IF ~ PathExists(aimg)
       THEN Raise("FileNotFoundError:image") /\ UNCHANGED dvars
       ELSE /\ EnterDetect(MainThread, aimg, aocrgpu, "app")
            /\ apc' = "a_detect"
            /\ UNCHANGED aerr
    /\ UNCHANGED fsBefore
    /\ UNCHANGED <<gvars, bvars, fvars, aop, aimg, aocrgpu, afallback, atextarg, afilearg,
                   amodel, aconfig, agpu, avoice, atext, achunks, asamples, arate>>
    /\ UNCHANGED cvars

A_Join_Swallow ==
    /\ apc = "a_detect"
    /\ DetectDone(MainThread)
    /\ atext' = IF dpc[MainThread] = "raised" THEN afallback
                ELSE Transcript(dret[MainThread], afallback)
    /\ stages' = stages \o <<"detect_text", "transcript">>
    /\ apc' = "a_validate"
    /\ UNCHANGED <<ovars, fvars, aop, aimg, aocrgpu, afallback, atextarg, afilearg,
                   amodel, aconfig, agpu, avoice, achunks, asamples, arate, aerr, fsBefore>>
    /\ UNCHANGED cvars

\* detect_text has returned or raised; joined_text = ... or fallback_text
A_Join ==
    /\ apc = "a_detect"
    /\ DetectDone(MainThread)
    /\ IF dpc[MainThread] = "raised"
       THEN /\ Raise(dret[MainThread])
            /\ stages' = Append(stages, "detect_text")
            /\ UNCHANGED atext
       ELSE /\ atext' = Transcript(dret[MainThread], afallback)
            /\ stages' = stages \o <<"detect_text", "transcript">>
            /\ apc' = "a_validate"
            /\ UNCHANGED aerr
    /\ UNCHANGED fsBefore
    /\ UNCHANGED <<ovars, fvars, aop, aimg, aocrgpu, afallback, atextarg, afilearg,
                   amodel, aconfig, agpu, avoice, achunks, asamples, arate>>
    /\ UNCHANGED cvars

\* model / config resolution and the two existence checks; then
\* initialize_piper_voice(str(model), str(config), use_gpu=tts_gpu) is called
A_Validate ==
    /\ apc = "a_validate"
    /\ stages' = Append(stages, "validate_model_config")
    /\ \E model \in Seen(amodel), config \in Seen(aconfig) :
          /\ amodel' = model
          /\ aconfig' = config
          /\ IF model = "missing"
             THEN Raise("FileNotFoundError:model")
             ELSE IF config = "missing"
                  THEN Raise("FileNotFoundError:config")
                  ELSE apc' = "iv_check" /\ UNCHANGED aerr
    /\ UNCHANGED fsBefore
    /\ UNCHANGED <<ovars, fvars, aop, aimg, aocrgpu, afallback, atextarg, afilearg,
                   agpu, avoice, atext, achunks, asamples, arate>>
    /\ UNCHANGED cvars

\* output_path.parent.mkdir(parents=True, exist_ok=True), which the file
\* system may refuse; then save_wav(samples, sample_rate, str(output_path))
A_Mkdir ==
    /\ apc = "a_mkdir"
    /\ stages' = Append(stages, "write_wav")
    /\ IF MkdirRaises(outDir, TRUE)
       THEN Raise("FileExistsError") /\ UNCHANGED outDir
       ELSE \/ /\ outDir' = TRUE
               /\ apc' = "w_mkdir"
               /\ UNCHANGED aerr
            \/ /\ ~ outDir
               /\ Raise("OSError:mkdir")
               /\ UNCHANGED outDir
    /\ UNCHANGED fsBefore
    /\ UNCHANGED <<ovars, outFile, handle, aop, aimg, aocrgpu, afallback, atextarg, afilearg,
                   amodel, aconfig, agpu, avoice, atext, achunks, asamples, arate>>
    /\ UNCHANGED cvars

\* ------------------------------------------------------ main_controller.py
\* The byte values the peer sends: S, L, E, P, a blank and a byte that is not
\* ASCII.
Bytes == {83, 76, 69, 80, 32, 255}

\* chr(b) of an ASCII byte
Chr(b) ==
    CASE b = 83 -> "S"
      [] b = 76 -> "L"
      [] b = 69 -> "E"
      [] b = 80 -> "P"
      [] b = 32 -> " "
      [] OTHER -> "?"

\* data.decode(errors='ignore') of the bytes data: a byte that is not valid
\* UTF-8 on its own is left out
Decode(data) ==
    LET ok == SelectSeq(data, LAMBDA b : b < 128)
    IN  [i \in 1..Len(ok) |-> Chr(ok[i])]

SleepInstruction == <<"S", "L", "E", "E", "P">>

\* subprocess.run([GPIO_SETUP_SCRIPT], check=True); ser = serial.Serial(...):
\* either can raise, which ends the script before the loop
C_Start ==
    /\ cpc = "off"
    /\ \/ cpc' = "read" /\ serOpen' = TRUE
       \/ cpc' = "failed" /\ UNCHANGED serOpen
    /\ UNCHANGED <<crx, cdata, suspends>>
    /\ UNCHANGED <<ovars, avars, fvars>>

\* data = ser.read(size=1): blocks until one byte has arrived
C_Read ==
    /\ cpc = "read"
    /\ Len(crx) < MaxBytes
    /\ \E b \in Bytes :
         /\ cdata' = <<b>>
         /\ crx' = Append(crx, b)
    /\ cpc' = "handle"
    /\ UNCHANGED <<suspends, serOpen>>
    /\ UNCHANGED <<ovars, avars, fvars>>

\* if data: instruction = data.decode(errors='ignore').strip();
\* if instruction == "SLEEP": os.system("sudo systemctl suspend")
C_Handle ==
    /\ cpc = "handle"
    /\ LET instruction == Strip(Decode(cdata))
       IN  suspends' = IF cdata # <<>> /\ instruction = SleepInstruction
                       THEN suspends + 1
                       ELSE suspends
    /\ cpc' = "read"
    /\ UNCHANGED <<crx, cdata, serOpen>>
    /\ UNCHANGED <<ovars, avars, fvars>>

\* KeyboardInterrupt in the loop: except prints, finally closes the port
C_Interrupt ==
    /\ cpc \in {"read", "handle"}
    /\ cpc' = "closed"
    /\ serOpen' = FALSE
    /\ UNCHANGED <<crx, cdata, suspends>>
    /\ UNCHANGED <<ovars, avars, fvars>>

\* ser.read raises (the device went away): finally closes the port and the
\* exception ends the script
C_ReadFail ==
    /\ cpc = "read"
    /\ cpc' = "failed"
    /\ serOpen' = FALSE
    /\ UNCHANGED <<crx, cdata, suspends>>
    /\ UNCHANGED <<ovars, avars, fvars>>

\* ------------------------------------------------------------------- init
\* What the output path and its parent directory can hold when the process
\* starts: nothing, the directory alone, or a file an earlier run left there
\* (truncated by a failed run, or complete).
InitialFs ==
    { <<FALSE, <<>>>>, <<TRUE, <<>>>>, <<TRUE, <<EmptyFile>>>>,
      <<TRUE, <<WavFile(16000, <<1, 1>>)>>>> }

InitThreads(T, fs) ==
    /\ ncalls = 0
    /\ cache = 0
    /\ built = 0
    /\ served = {}
    /\ dpc = [t \in T |-> "idle"]
    /\ dimg = [t \in T |-> AbsentImage]
    /\ dgpu = [t \in T |-> FALSE]
    /\ dcaller = [t \in T |-> None]
    /\ dnew = [t \in T |-> 0]
    /\ dreader = [t \in T |-> 0]
    /\ dret = [t \in T |-> None]
    /\ bpc = "idle"
    /\ bimg = AbsentImage
    /\ bgpu = FALSE
    /\ bi = 1
    /\ bnew = <<0, 0>>
    /\ bresults = <<>>
    /\ berr = None
    /\ tempDir = FALSE
    /\ temps = [i \in 1..Len(ScaleFactors) |-> AbsentImage]
    /\ report = <<>>
    /\ apc = "idle"
    /\ aop = None
    /\ aimg = AbsentImage
    /\ aocrgpu = FALSE
    /\ afallback = <<>>
    /\ atextarg = <<>>
    /\ afilearg = <<>>
    /\ amodel = Unseen
    /\ aconfig = None
    /\ agpu = FALSE
    /\ avoice = <<>>
    /\ atext = <<>>
    /\ achunks = <<>>
    /\ asamples = <<>>
    /\ arate = 0
    /\ aerr = None
    /\ stages = <<>>
    /\ fsBefore = <<FALSE, <<>>>>
    /\ outDir = fs[1]
    /\ outFile = fs[2]
    /\ handle = FALSE
    /\ cpc = "off"
    /\ crx = <<>>
    /\ cdata = <<>>
    /\ suspends = 0
    /\ serOpen = FALSE

\* ------------------------------------------- concurrent users of detect_text
InitConc == InitThreads(1..NThreads, <<FALSE, <<>>>>)

ConcCall == \E t \in Threads : OcrMain(t)
ConcReturn == \E t \in Threads : OcrReturn(t)
ConcImread == \E t \in Threads : DT_Imread(t)
ConcLookup == \E t \in Threads : DT_Lookup(t)
ConcConstruct == \E t \in Threads : DT_Construct(t)
ConcStore == \E t \in Threads : DT_Store(t)
ConcReadtext == \E t \in Threads : DT_Readtext(t)

NextConc ==
    \/ ConcCall
    \/ ConcReturn
    \/ ConcImread
    \/ ConcLookup
    \/ ConcConstruct
    \/ ConcStore
    \/ ConcReadtext

SpecConc == InitConc /\ [][NextConc]_vars

\* --------------------------- one process running the OCR command line tool
InitMain == InitThreads({MainThread}, <<FALSE, <<>>>>)

OcrCall == OcrMain(MainThread)
OcrDone == OcrReturn(MainThread)
OcrDetect == DetectStep(MainThread)

NextOCR ==
    \/ OcrCall
    \/ OcrDone
    \/ OcrDetect
    \/ BenchStart
    \/ B_Imread
    \/ B_Resize
    \/ B_Imwrite
    \/ B_Detect
    \/ B_Record
    \/ B_Remove
    \/ B_Finally
    \/ B_Report
    \/ BenchReturn

SpecOCR == InitMain /\ [][NextOCR]_vars

\* ------------- one process running image_to_speech and the piper_tts tool
AppDetect == DetectStep(MainThread)

Next ==
    \/ AppStart
    \/ A_Exists
    \/ AppDetect
    \/ A_Join
    \/ A_Validate
    \/ TtsMain
    \/ IV_Check
    \/ IV_Load
    \/ T_ReadText
    \/ SY_Check
    \/ SY_Chunk
    \/ SY_Fail
    \/ SY_End
    \/ A_Mkdir
    \/ W_Mkdir
    \/ W_Open
    \/ W_Write
    \/ W_Exit

InitPipeline == \E fs \in InitialFs : InitThreads({MainThread}, fs)

Spec == InitPipeline /\ [][Next]_vars

\* ------------------------------- one process calling save_wav repeatedly
NextWav ==
    \/ WavCall
    \/ W_Mkdir
    \/ W_Open
    \/ W_Write
    \/ W_Exit
    \/ WavReturn

SpecWav == InitMain /\ [][NextWav]_vars

\* ------------------------------------ one process running main_controller
NextCtl ==
    \/ C_Start
    \/ C_Read
    \/ C_Handle
    \/ C_Interrupt
    \/ C_ReadFail

SpecCtl == InitMain /\ [][NextCtl]_vars

\* ======================================================================
\* Properties
\* ======================================================================
Instances(S) == { p[1] : p \in S }

\* C1: in a process that makes its detect_text and benchmark calls one after
\* the other, with any mix of gpu arguments, every return of the engine
\* accessor is the same instance, that instance is the cached one, and the
\* engine is constructed at most once.
C1_SingleEngine ==
    /\ built <= 1
    /\ Cardinality(Instances(served)) <= 1
    /\ \A p \in served : p[1] = cache

\* C1 witness: a benchmark has returned in a process that made at least two
\* calls, and the accessor has served callers with gpu=True and gpu=False.
C1_Witness ==
    /\ bpc = "returned"
    /\ ncalls >= 2
    /\ {<<1, TRUE>>, <<1, FALSE>>} \subseteq served

\* C2: with threads making their first use of the accessor concurrently the
\* constructor runs at most once and all callers hold the same instance.
C2_OneConstruction ==
    /\ built <= 1
    /\ \A t, u \in Threads : dreader[t] # 0 /\ dreader[u] # 0 => dreader[t] = dreader[u]

\* C7: a recognition failure recorded for one scale never ends the loop: the
\* benchmark does not raise out of the iteration whose failure it recorded.
C7_FailureIsolated ==
    ~ /\ bpc = "raised"
      /\ Len(bresults) = bi
      /\ ~ bresults[bi].success

\* C8: for a decodable input image of any size the benchmark returns exactly
\* three results, in scale-factor order, each with the truncated scaled
\* resolution (runs whose temp image could not be written or removed aside).
C8_ThreeResults ==
    ( /\ bpc \in {"returned", "raised"}
      /\ ~ ImreadIsNone(bimg)
      /\ berr \notin {"cv2.error:imwrite", "FileNotFoundError:remove"} )
    => /\ bpc = "returned"
       /\ Len(bresults) = 3
       /\ \A i \in 1..3 :
            /\ bresults[i].scale_factor = ScaleFactors[i]
            /\ bresults[i].resolution =
                 Str((bimg.w * ScaleFactors[i]) \div 100) \o <<"x">>
                   \o Str((bimg.h * ScaleFactors[i]) \div 100)

RECURSIVE SumOver(_, _)
SumOver(f, S) ==
    IF S = {} THEN 0 ELSE LET x == CHOOSE y \in S : TRUE IN f[x] + SumOver(f, S \ {x})

\* C9: a written report's average, fastest and slowest are those of exactly
\* the results with success = TRUE; with no such result the report says that
\* no test succeeded and holds no average; no division by zero is raised.
C9_StatsOverSuccesses ==
    /\ berr # "ZeroDivisionError"
    /\ report # <<>> =>
         LET ok == { i \in 1..Len(bresults) : bresults[i].success }
             time == [i \in 1..Len(bresults) |-> bresults[i].execution_time]
             sm == report[1].summary
         IN  IF ok = {}
             THEN sm = [kind |-> "No successful tests completed."]
             ELSE /\ sm.kind = "stats"
                  /\ sm.avg_time = <<SumOver(time, ok), Cardinality(ok)>>
                  /\ \E i \in ok : /\ sm.fastest = <<bresults[i].resolution, time[i]>>
                                   /\ \A j \in ok : time[i] <= time[j]
                  /\ \E i \in ok : /\ sm.slowest = <<bresults[i].resolution, time[i]>>
                                   /\ \A j \in ok : time[i] >= time[j]

\* C9 witness: a report over a failed test and two successful tests of
\* different times.
C9_Witness ==
    /\ report # <<>>
    /\ \E i, j, k \in 1..Len(bresults) :
         /\ ~ bresults[i].success
         /\ bresults[j].success /\ bresults[k].success
         /\ bresults[j].execution_time # bresults[k].execution_time

\* ---------------------------------------------------------------- pipeline
\* a string of whitespace only (the empty string included)
BlankStr(str) == \A i \in 1..Len(str) : str[i] = " "

InStages(stage) == \E i \in 1..Len(stages) : stages[i] = stage

LastStage == IF stages = <<>> THEN None ELSE stages[Len(stages)]

\* detect_text returned to image_to_speech and every fragment is blank
DetectedBlank ==
    /\ aop = "app"
    /\ dpc[MainThread] = "ret"
    /\ \A i \in 1..Len(dret[MainThread]) : BlankStr(dret[MainThread][i])

\* failures of the collaborators and of the file system
ExternalFailures ==
    {"PiperLoadError", "PiperLoadError:cuda", "SynthesisError", "ValueError:buffer size",
     "OSError:mkdir", "OSError:open", "OSError:write"}

\* the little-endian bytes of int16 samples
LEBytes(samples) ==
    [k \in 1..(2 * Len(samples)) |->
        LET v == samples[(k + 1) \div 2]
            u == IF v < 0 THEN v + 65536 ELSE v
        IN  IF k % 2 = 1 THEN u % 256 ELSE u \div 256]

\* chunks one after the other, built from the last one backwards
RECURSIVE InOrder(_)
InOrder(chunks) ==
    IF chunks = <<>> THEN <<>>
    ELSE InOrder(SubSeq(chunks, 1, Len(chunks) - 1)) \o chunks[Len(chunks)]

\* C3 as claimed: with blank DetectedText, model and config present and no
\* collaborator failing, image_to_speech succeeds and speaks fallback_text,
\* whatever fallback_text is.
C3_AnyFallbackSucceeds ==
    ( /\ DetectedBlank
      /\ apc \in {"returned", "raised"}
      /\ amodel = "present" /\ aconfig = "present"
      /\ aerr \notin ExternalFailures )
    => apc = "returned" /\ atext = afallback

\* C3 amended: with blank DetectedText the text handed to synthesis is
\* fallback_text; with model and config present and no collaborator failing
\* the run succeeds when fallback_text is not blank, and fails at synthesize
\* with ValueError, before any audio is produced or written, when it is blank.
C3_FallbackSpoken ==
    (DetectedBlank /\ apc # "a_detect") =>
        /\ atext = afallback
        /\ ( /\ apc \in {"returned", "raised"}
             /\ amodel = "present" /\ aconfig = "present"
             /\ aerr \notin ExternalFailures )
           => IF BlankStr(afallback)
              THEN /\ apc = "raised"
                   /\ aerr = "ValueError:empty text"
                   /\ achunks = <<>>
                   /\ <<outDir, outFile>> = fsBefore
              ELSE apc = "returned"

\* C3 witness: a run over two blank fragments returned having spoken the
\* fallback text.
C3_Witness ==
    /\ DetectedBlank
    /\ Len(dret[MainThread]) = 2
    /\ apc = "returned"
    /\ afallback = <<"n", "o">>
    /\ atext = afallback

StageOrder ==
    <<"image_exists", "detect_text", "transcript", "validate_model_config",
      "check_voice_files", "load_voice", "synthesize", "write_wav">>

StageErrors ==
    [s \in {StageOrder[i] : i \in 1..Len(StageOrder)} |->
        CASE s = "image_exists" -> {"FileNotFoundError:image"}
          [] s = "detect_text" -> {"FileNotFoundError", "EngineConstructionError", "RuntimeError"}
          [] s = "transcript" -> {}
          [] s = "validate_model_config" -> {"FileNotFoundError:model", "FileNotFoundError:config"}
          [] s = "check_voice_files" -> {}
          [] s = "load_voice" -> {"PiperLoadError", "PiperLoadError:cuda"}
          [] s = "synthesize" -> {"ValueError:empty text", "SynthesisError", "ValueError:buffer size"}
          [] s = "write_wav" -> {"OSError:mkdir", "OSError:open", "OSError:write"}]

\* C4 as claimed: the stages run in the fixed order, each at most once, and
\* whichever stage fails the output file and its parent directory are as
\* they were before the call.
C4_FailureLeavesOutput ==
    aop = "app" =>
        /\ stages = SubSeq(StageOrder, 1, Len(stages))
        /\ apc = "raised" => <<outDir, outFile>> = fsBefore

\* C4 amended: the stages run in the fixed order, each at most once; a
\* failing stage ends the call with that stage's own error and no later
\* stage runs; the output file and its parent directory are untouched unless
\* the write_wav stage was reached (a failing write_wav can leave the
\* directory created and the file truncated or partly written).
C4_FailFast ==
    aop = "app" =>
        /\ stages = SubSeq(StageOrder, 1, Len(stages))
        /\ (dpc[MainThread] = "raised" /\ apc # "a_detect") =>
              /\ apc = "raised"
              /\ aerr = dret[MainThread]
              /\ LastStage = "detect_text"
        /\ apc = "raised" => aerr \in StageErrors[LastStage]
        /\ apc = "returned" => stages = StageOrder /\ aerr = None
        /\ ~ InStages("write_wav") => <<outDir, outFile>> = fsBefore

\* C4 witness: synthesis failed in a call made while an output file of an
\* earlier run exists; that file is as it was.
C4_Witness ==
    /\ aop = "app"
    /\ apc = "raised"
    /\ aerr = "SynthesisError"
    /\ LastStage = "synthesize"
    /\ outFile # <<>>
    /\ <<outDir, outFile>> = fsBefore

\* C5: initialize_piper_voice with a missing model file, or with a given
\* config path that does not exist, raises FileNotFoundError with no voice
\* constructed and no synthesis attempted; with the config path omitted no
\* existence check is made and the construction is attempted.
C5_VoiceFilesChecked ==
    InStages("check_voice_files") =>
        /\ amodel = "missing" =>
              /\ apc = "raised" /\ aerr = "FileNotFoundError:model"
              /\ avoice = <<>> /\ achunks = <<>>
              /\ ~ InStages("load_voice") /\ ~ InStages("synthesize")
        /\ (amodel = "present" /\ aconfig = "missing") =>
              /\ apc = "raised" /\ aerr = "FileNotFoundError:config"
              /\ avoice = <<>> /\ achunks = <<>>
              /\ ~ InStages("load_voice") /\ ~ InStages("synthesize")
        /\ (amodel = "present" /\ aconfig = None) =>
              \/ apc = "iv_load"
              \/ InStages("load_voice")

\* C5 witness: the command line tool was given a model path that does not
\* exist and no config path, and initialize_piper_voice raised.
C5_Witness ==
    /\ aop = "tts"
    /\ amodel = "missing"
    /\ aconfig = None
    /\ apc = "raised"
    /\ LastStage = "check_voice_files"

\* C6: synthesise_to_memory with a blank text raises ValueError without
\* asking the voice for any chunk; otherwise what it returns is all the
\* chunks the stream yielded, in order, as int16 samples; when it raises it
\* returns nothing.
C6_AllOrNothing ==
    /\ (InStages("synthesize") /\ BlankStr(atext)) =>
          /\ apc = "raised" /\ aerr = "ValueError:empty text"
          /\ achunks = <<>> /\ asamples = <<>>
    /\ (apc \in {"a_mkdir", "w_mkdir"} \/ InStages("write_wav")) =>
          /\ ~ BlankStr(atext)
          /\ LEBytes(asamples) = InOrder(achunks)
    /\ (apc = "raised" /\ aerr \in StageErrors["synthesize"]) => asamples = <<>>

\* C6 witness: synthesis returned one sample made of two one-byte chunks.
C6_Witness ==
    /\ apc \in {"a_mkdir", "w_mkdir"}
    /\ achunks = << <<1>>, <<1>> >>
    /\ asamples = <<257>>

\* C10: save_wav holds an open handle only inside its with block; when it
\* returns the parent directory exists and the file holds one channel,
\* 16 bits, the supplied rate and exactly the samples of this call, whatever
\* the path held before; it fails only when the file system refuses the
\* mkdir, the open or the write.
C10_SaveWav ==
    /\ handle => apc \in {"w_write", "w_exit"}
    /\ apc = "returned" =>
          /\ outDir
          /\ outFile = << [nchannels |-> 1, sampwidth |-> 2, framerate |-> arate,
                           frames |-> LEBytes(asamples)] >>
    /\ (apc = "raised" /\ InStages("write_wav")) =>
          aerr \in {"OSError:mkdir", "OSError:open", "OSError:write"}

\* C10 witness: a second call of save_wav returned, having replaced the
\* complete file of the first call, which held other samples.
C10_Witness ==
    /\ aop = "wav"
    /\ ncalls = 2
    /\ apc = "returned"
    /\ fsBefore[2] # <<>>
    /\ fsBefore[2][1].frames = <<1, 0>>
    /\ outFile[1].frames = <<1, 1, 255, 255>>

ConstructionFailed(t) ==
    dpc[t] = "raised" /\ dret[t] = "EngineConstructionError"

\* C12: when the engine constructor fails on first use, detect_text ends
\* with the constructor's error; the call attempted the construction once
\* (from the construction it goes to the store or to the raise, and from the
\* raise nowhere but out of the call, to the caller's next call at the
\* earliest); and the failed attempt leaves no engine built, held or cached.
C12_ConstructionFailure ==
    /\ [](\A t \in Threads :
            ConstructionFailed(t) =>
                /\ dnew[t] = 0 /\ dreader[t] = 0
                /\ cache = 0 /\ built = 0)
    /\ [][\A t \in Threads :
            /\ dpc[t] = "construct" => dpc'[t] \in {"construct", "store", "raised"}
            /\ (dpc[t] = "construct" /\ dpc'[t] = "raised") => ConstructionFailed(t)'
            /\ ConstructionFailed(t) =>
                  /\ dpc'[t] \in {"raised", "idle", "imread"}
                  /\ cache' = cache /\ built' = built]_vars

\* C12 witness: the first call of the process ended with the constructor's
\* error and nothing is cached.
C12_Witness ==
    /\ ConstructionFailed(MainThread)
    /\ dcaller[MainThread] = "main"
    /\ ncalls = 1
    /\ cache = 0

\* -------------------------------------------------- the control listener
SleepBytes == <<83, 76, 69, 69, 80>>

\* the bytes S, L, E, E, P have arrived one after the other, the last of
\* them as the k-th byte received
SleepArrivedAt(k) == k >= 5 /\ SubSeq(crx, k - 4, k) = SleepBytes

\* the loop is done with the k-th byte received
Handled(k) == k < Len(crx) \/ (k = Len(crx) /\ cpc = "read")

\* C13 as claimed: the listener takes the bytes one at a time; once the
\* bytes of "SLEEP" have arrived and been handled, suspend has been
\* triggered; suspend is triggered by nothing else; and no byte ends the
\* loop or closes the port.
C13_SleepSuspends ==
    /\ \A k \in 1..Len(crx) : (SleepArrivedAt(k) /\ Handled(k)) => suspends >= 1
    /\ suspends >= 1 => \E k \in 1..Len(crx) : SleepArrivedAt(k)
    /\ cpc = "handle" => (serOpen /\ cdata = <<crx[Len(crx)]>>)
    /\ serOpen <=> cpc \in {"read", "handle"}

\* ------------------------------------------------ images that do not decode
\* a call of detect_text is under way, or has just ended, on thread t with a
\* path that cv2.imread cannot decode
DecodeFails(t) == dpc[t] # "idle" /\ ImreadIsNone(dimg[t])

\* C14: detect_text on a path that does not decode raises FileNotFoundError
\* straight after imread: the call never asks for the engine, so it builds
\* none, is handed none and runs no recognition; and an engine is only ever
\* built by a call whose image decoded.
C14_DecodeShortCircuit ==
    /\ [](\A t \in Threads :
            DecodeFails(t) =>
                /\ dpc[t] \in {"imread", "raised"}
                /\ dpc[t] = "raised" => dret[t] = "FileNotFoundError"
                /\ dnew[t] = 0 /\ dreader[t] = 0)
    /\ [][/\ (\A t \in Threads : DecodeFails(t) \/ dpc[t] = "idle") =>
               (built' = built /\ cache' = cache /\ served' = served)
          /\ built' # built =>
               \E t \in Threads : dpc[t] = "construct" /\ ~ ImreadIsNone(dimg[t])]_vars

\* C14 witness: the second call of a process, like the first, has failed to
\* decode its image, and no engine has been built.
C14_Witness ==
    /\ ncalls = 2
    /\ dpc[MainThread] = "raised"
    /\ dret[MainThread] = "FileNotFoundError"
    /\ dimg[MainThread] = GarbageImage
    /\ dcaller[MainThread] = "main"
    /\ built = 0
    /\ served = {}

\* ------------------------------------------------ the benchmark's temp files
\* no scaled temp image is on disk
NoTempImage == \A i \in DOMAIN temps : temps[i].kind = "absent"

\* the positions inside the for loop of benchmark_ocr_quality
LoopPcs == {"resize", "imwrite", "detect", "record", "remove"}

\* C15: every iteration of the benchmark loop starts with no temp image on
\* disk, and none is there when the benchmark returns, with its report
\* written; every way out of the loop, normal or exceptional, leads to the
\* attempt to remove the temp directory; that attempt raises nothing of its
\* own, and whether or not it removes the directory the benchmark goes on
\* to its report when no exception was in flight.
C15_TempCleanup ==
    /\ [](/\ bpc \in {"resize", "imwrite"} => NoTempImage
          /\ bpc = "returned" => (NoTempImage /\ report # <<>>))
    /\ [][/\ (bpc \in LoopPcs /\ bpc' \notin LoopPcs) => bpc' = "finally"
          /\ (bpc = "finally" /\ bpc' # "finally") =>
                /\ berr' = berr
                /\ bpc' = IF berr = None THEN "report" ELSE "raised"]_vars

\* C15 witness: a benchmark of three tests has returned with its report; the
\* temp directory could not be removed, and no temp image is left.
C15_Witness ==
    /\ bpc = "returned"
    /\ Len(bresults) = 3
    /\ report # <<>>
    /\ tempDir
    /\ NoTempImage

\* ---------------------------------------------------------- the transcript
\* the fragments one after the other with one space between neighbours,
\* built from the last fragment backwards
RECURSIVE SpaceJoined(_)
SpaceJoined(frags) ==
    IF frags = <<>> THEN <<>>
    ELSE IF Len(frags) = 1 THEN frags[1]
    ELSE SpaceJoined(SubSeq(frags, 1, Len(frags) - 1)) \o <<" ">> \o frags[Len(frags)]

\* detect_text returned to image_to_speech and the transcript has been formed
TranscriptFormed ==
    /\ aop = "app"
    /\ dpc[MainThread] = "ret"
    /\ InStages("transcript")

\* str is whole without the blanks at its two ends
TrimOf(str, whole) ==
    \E i \in 1..Len(whole), j \in 1..Len(whole) :
        /\ i <= j
        /\ str = SubSeq(whole, i, j)
        /\ whole[i] # " " /\ whole[j] # " "
        /\ \A k \in 1..Len(whole) : (k < i \/ k > j) => whole[k] = " "

\* C16 as claimed: when DetectedText is not empty or entirely whitespace the
\* text handed to synthesis is exactly the fragments joined with single
\* spaces, in detection order; otherwise it is the fallback text.
C16_ExactJoin ==
    TranscriptFormed =>
        atext = IF DetectedBlank THEN afallback ELSE SpaceJoined(dret[MainThread])

\* C16 amended: when DetectedText is not empty or entirely whitespace the
\* text handed to synthesis is the fragments joined with single spaces, in
\* detection order, without the whitespace at the two ends of the joined
\* string (everything between is kept as it is); the fallback text is
\* substituted exactly when DetectedText is empty or entirely whitespace.
C16_TrimmedJoin ==
    TranscriptFormed =>
        IF DetectedBlank
        THEN atext = afallback
        ELSE TrimOf(atext, SpaceJoined(dret[MainThread]))

\* C16 witness: the fragments " b" and "a" were detected and "b a" was handed
\* to synthesis, which returned.
C16_Witness ==
    /\ TranscriptFormed
    /\ dret[MainThread] = << <<" ", "b">>, <<"a">> >>
    /\ atext = <<"b", " ", "a">>
    /\ apc = "returned"

====
